---- MODULE Spec2Model ----
(***************************************************************************)
(* Model of controllers/util: MergeCR / checkKeyBeforeMerging (merge.go)   *)
(* and CompareChannelVersion (util.go).                                    *)
(*                                                                         *)
(* Go values are represented as tagged records:                            *)
(*   [t |-> "nil"]              nil interface{} (a decoded JSON null)      *)
(*   [t |-> "num", v |-> n]     float64 scalar                             *)
(*   [t |-> "seq", v |-> s]     []interface{}                              *)
(*   [t |-> "map", v |-> f]     non-nil map[string]interface{}             *)
(*   [t |-> "nilmap"]           nil map[string]interface{}                 *)
(*   [t |-> "panic"]            the call aborted with a run-time panic     *)
(* A byte buffer is represented by what encoding/json makes of it:         *)
(*   [b |-> "empty"]            len == 0                                   *)
(*   [b |-> "malformed"]        non-empty, not valid JSON                  *)
(*   [b |-> "json", doc |-> x]  non-empty, valid JSON text of value x      *)
(* A string is a sequence of one-character strings.                        *)
(***************************************************************************)
EXTENDS Integers, Sequences, FiniteSets, TLC

VARIABLES defaultCR, changedCR, merged, remerged, v1, v2, cmp, cmpSwapped, pc

vars == <<defaultCR, changedCR, merged, remerged, v1, v2, cmp, cmpSwapped, pc>>

(***************************************************************************)
(* Bounds of the model.                                                    *)
(***************************************************************************)
\* total number of map entries (at every nesting level) of the two documents
MaxEntries == 5
\* entries of the document that is paired with an empty / non-mapping input
MaxEntriesBeside == 3
\* total number of '.'-separated components of the two version strings
MaxComponents == 5

(***************************************************************************)
(* Go values.                                                              *)
(***************************************************************************)
Nil == [t |-> "nil"]
NilMap == [t |-> "nilmap"]
Panic == [t |-> "panic"]
Num(n) == [t |-> "num", v |-> n]
SeqVal(s) == [t |-> "seq", v |-> s]
MapVal(f) == [t |-> "map", v |-> f]
EmptyFcn == [k \in {} |-> Nil]
Put(f, k, x) == [j \in (DOMAIN f) \cup {k} |-> IF j = k THEN x ELSE f[j]]

\* make(map[string]interface{})
MakeMap == MapVal(EmptyFcn)

\* m[k] of a Go map: the zero value (nil) for a missing key or a nil map
Index(m, k) == IF m.t = "map" /\ k \in DOMAIN m.v THEN m.v[k] ELSE Nil

\* m[k] = x of a Go map: a write into a nil map panics
Assign(m, k, x) == IF m.t = "map" THEN MapVal(Put(m.v, k, x)) ELSE Panic

\* reflect.DeepEqual on decoded JSON values
RECURSIVE DeepEqual(_, _)
DeepEqual(x, y) ==
    IF x.t # y.t THEN FALSE
    ELSE IF x.t = "map"
         THEN /\ DOMAIN x.v = DOMAIN y.v
              /\ \A k \in DOMAIN x.v : DeepEqual(x.v[k], y.v[k])
    ELSE IF x.t = "seq"
         THEN /\ Len(x.v) = Len(y.v)
              /\ \A i \in 1..Len(x.v) : DeepEqual(x.v[i], y.v[i])
    ELSE IF x.t = "num" THEN x.v = y.v
    ELSE TRUE

(***************************************************************************)
(* Byte buffers and encoding/json.                                         *)
(***************************************************************************)
Empty == [b |-> "empty"]
Malformed == [b |-> "malformed"]
Json(x) == [b |-> "json", doc |-> x]

\* len(buf) == 0
IsEmptyBuf(buf) == buf.b = "empty"

\* json.Unmarshal(data, &into) for into of type map[string]interface{}:
\* a syntax error or a non-object value leaves the map as it was and returns
\* an error; JSON null sets the map to nil without an error; an object's
\* members are stored into the map.
Unmarshal(data, into) ==
    IF data.b # "json" THEN [m |-> into, err |-> TRUE]
    ELSE IF data.doc.t = "nil" THEN [m |-> NilMap, err |-> FALSE]
    ELSE IF data.doc.t = "map"
         THEN [m |-> MapVal([k \in (DOMAIN into.v) \cup (DOMAIN data.doc.v) |->
                               IF k \in DOMAIN data.doc.v THEN data.doc.v[k]
                               ELSE into.v[k]]),
               err |-> FALSE]
    ELSE [m |-> into, err |-> TRUE]

(***************************************************************************)
(* merge.go                                                                *)
(***************************************************************************)
RECURSIVE checkKeyBeforeMerging(_, _, _, _)
RECURSIVE rangeNested(_, _, _, _)

\* checkKeyBeforeMerging without the gap fill of a non-map default
checkKeyBeforeMerging_noGapFill(key, defaultMap, changedMap, finalMap) ==
    IF DeepEqual(defaultMap, changedMap) THEN finalMap
    ELSE IF defaultMap.t = "map"
         THEN IF changedMap = Nil
              THEN Assign(finalMap, key, defaultMap)
              ELSE IF changedMap.t = "map"
                   THEN LET inner == Index(finalMap, key)
                        IN IF inner.t # "map" THEN Panic
                           ELSE LET sub == rangeNested(DOMAIN defaultMap.v, defaultMap,
                                                       changedMap, inner)
                                IN IF sub = Panic THEN Panic
                                   ELSE Assign(finalMap, key, sub)
                   ELSE finalMap
    ELSE finalMap

\* checkKeyBeforeMerging that does not descend into a pair of maps
checkKeyBeforeMerging_shallow(key, defaultMap, changedMap, finalMap) ==
    IF DeepEqual(defaultMap, changedMap) THEN finalMap
    ELSE IF defaultMap.t = "map"
         THEN IF changedMap = Nil
              THEN Assign(finalMap, key, defaultMap)
              ELSE finalMap
    ELSE IF changedMap = Nil
         THEN Assign(finalMap, key, defaultMap)
         ELSE finalMap

\* checkKeyBeforeMerging whose non-map default replaces a value that is set
checkKeyBeforeMerging_defaultWins(key, defaultMap, changedMap, finalMap) ==
    IF DeepEqual(defaultMap, changedMap) THEN finalMap
    ELSE IF defaultMap.t = "map"
         THEN IF changedMap = Nil
              THEN Assign(finalMap, key, defaultMap)
              ELSE IF changedMap.t = "map"
                   THEN LET inner == Index(finalMap, key)
                        IN IF inner.t # "map" THEN Panic
                           ELSE LET sub == rangeNested(DOMAIN defaultMap.v, defaultMap,
                                                       changedMap, inner)
                                IN IF sub = Panic THEN Panic
                                   ELSE Assign(finalMap, key, sub)
                   ELSE finalMap
    ELSE Assign(finalMap, key, defaultMap)

\* for newKey := range defaultMapRef { checkKeyBeforeMerging(newKey,
\*     defaultMapRef[newKey], changedMapRef[newKey], target) }
\* target is the map the calls write into.  Each iteration reads and writes
\* its own key only, so the order of the range does not change the outcome;
\* a panic in one iteration ends the loop.
rangeNested(keys, defaultMapRef, changedMapRef, target) ==
    IF keys = {} \/ target = Panic THEN target
    ELSE LET newKey == CHOOSE k \in keys : TRUE
         IN rangeNested(keys \ {newKey}, defaultMapRef, changedMapRef,
                checkKeyBeforeMerging(newKey, Index(defaultMapRef, newKey),
                                      Index(changedMapRef, newKey), target))

\* the value of finalMap after the call (the code mutates it in place)
checkKeyBeforeMerging(key, defaultMap, changedMap, finalMap) ==
    IF DeepEqual(defaultMap, changedMap) THEN finalMap
    ELSE IF defaultMap.t = "map"
         THEN IF changedMap = Nil
              THEN Assign(finalMap, key, defaultMap)
              ELSE IF changedMap.t = "map"
                   THEN LET inner == Index(finalMap, key)
                        IN IF inner.t # "map" THEN Panic
                           ELSE LET sub == rangeNested(DOMAIN defaultMap.v, defaultMap,
                                                       changedMap, inner)
                                IN IF sub = Panic THEN Panic
                                   ELSE Assign(finalMap, key, sub)
                   ELSE finalMap
    ELSE IF changedMap = Nil
         THEN Assign(finalMap, key, defaultMap)
         ELSE finalMap

RECURSIVE rangeTop(_, _, _)
\* for key := range defaultCRDecoded { checkKeyBeforeMerging(key,
\*     defaultCRDecoded[key], changedCRDecoded[key], changedCRDecoded) }
rangeTop(keys, defaultCRDecoded, changedCRDecoded) ==
    IF keys = {} \/ changedCRDecoded = Panic THEN changedCRDecoded
    ELSE LET key == CHOOSE k \in keys : TRUE
         IN rangeTop(keys \ {key}, defaultCRDecoded,
                checkKeyBeforeMerging(key, Index(defaultCRDecoded, key),
                                      Index(changedCRDecoded, key), changedCRDecoded))

\* the keys a range over a Go map visits (none for a nil map)
KeysOf(m) == IF m.t = "map" THEN DOMAIN m.v ELSE {}

LogIf(err, msg) == IF err THEN <<msg>> ELSE <<>>

RECURSIVE rangeTop_break(_, _, _)
\* the loop of MergeCR leaving at the first key that changed the map
rangeTop_break(keys, defaultCRDecoded, changedCRDecoded) ==
    IF keys = {} \/ changedCRDecoded = Panic THEN changedCRDecoded
    ELSE LET key == CHOOSE k \in keys : TRUE
             after == checkKeyBeforeMerging(key, Index(defaultCRDecoded, key),
                                      Index(changedCRDecoded, key), changedCRDecoded)
         IN IF after # changedCRDecoded THEN after
            ELSE rangeTop_break(keys \ {key}, defaultCRDecoded, after)

\* MergeCR whose loop leaves at the first key that changed the map
MergeCR_break(default, changed) ==
    IF IsEmptyBuf(default) /\ IsEmptyBuf(changed)
    THEN [ret |-> MakeMap, log |-> <<>>]
    ELSE IF ~IsEmptyBuf(default) /\ IsEmptyBuf(changed)
    THEN LET d == Unmarshal(default, MakeMap)
         IN [ret |-> d.m, log |-> LogIf(d.err, "failed to unmarshal CR Template")]
    ELSE IF IsEmptyBuf(default) /\ ~IsEmptyBuf(changed)
    THEN LET c == Unmarshal(changed, MakeMap)
         IN [ret |-> c.m, log |-> LogIf(c.err, "failed to unmarshal service spec")]
    ELSE LET d == Unmarshal(default, MakeMap)
             c == Unmarshal(changed, MakeMap)
         IN [ret |-> rangeTop_break(KeysOf(d.m), d.m, c.m),
             log |-> LogIf(d.err, "failed to unmarshal CR Template")
                     \o LogIf(c.err, "failed to unmarshal service spec")]

\* MergeCR returning changedCRDecoded in the branch that decoded defaultCR
MergeCR_wrongReturn(default, changed) ==
    IF IsEmptyBuf(default) /\ IsEmptyBuf(changed)
    THEN [ret |-> MakeMap, log |-> <<>>]
    ELSE IF ~IsEmptyBuf(default) /\ IsEmptyBuf(changed)
    THEN LET d == Unmarshal(default, MakeMap)
         IN [ret |-> MakeMap, log |-> LogIf(d.err, "failed to unmarshal CR Template")]
    ELSE IF IsEmptyBuf(default) /\ ~IsEmptyBuf(changed)
    THEN LET c == Unmarshal(changed, MakeMap)
         IN [ret |-> c.m, log |-> LogIf(c.err, "failed to unmarshal service spec")]
    ELSE LET d == Unmarshal(default, MakeMap)
             c == Unmarshal(changed, MakeMap)
         IN [ret |-> rangeTop(KeysOf(d.m), d.m, c.m),
             log |-> LogIf(d.err, "failed to unmarshal CR Template")
                     \o LogIf(c.err, "failed to unmarshal service spec")]

\* [ret |-> the returned map (or Panic), log |-> the klog.Errorf calls made]
MergeCR(default, changed) ==
    IF IsEmptyBuf(default) /\ IsEmptyBuf(changed)
    THEN [ret |-> MakeMap, log |-> <<>>]
    ELSE IF ~IsEmptyBuf(default) /\ IsEmptyBuf(changed)
    THEN LET d == Unmarshal(default, MakeMap)
         IN [ret |-> d.m, log |-> LogIf(d.err, "failed to unmarshal CR Template")]
    ELSE IF IsEmptyBuf(default) /\ ~IsEmptyBuf(changed)
    THEN LET c == Unmarshal(changed, MakeMap)
         IN [ret |-> c.m, log |-> LogIf(c.err, "failed to unmarshal service spec")]
    ELSE LET d == Unmarshal(default, MakeMap)
             c == Unmarshal(changed, MakeMap)
         IN [ret |-> rangeTop(KeysOf(d.m), d.m, c.m),
             log |-> LogIf(d.err, "failed to unmarshal CR Template")
                     \o LogIf(c.err, "failed to unmarshal service spec")]

(***************************************************************************)
(* The documents the model draws its inputs from.                          *)
(***************************************************************************)
KeySeq == <<"a", "b">>
Leaves == {Nil, Num(1), Num(9), SeqVal(<<Num(1)>>)}

RECURSIVE MapsOver(_, _)
\* the maps over the keys KeySeq[i..] that hold exactly n entries, the
\* entries of nested maps included
MapsOver(i, n) ==
    IF i > Len(KeySeq) THEN (IF n = 0 THEN {EmptyFcn} ELSE {})
    ELSE MapsOver(i + 1, n) \cup
         UNION { { Put(m, KeySeq[i], x) :
                      x \in (IF w = 0 THEN Leaves \cup {MakeMap}
                             ELSE {MapVal(f) : f \in MapsOver(1, w)}),
                      m \in MapsOver(i + 1, n - 1 - w) } : w \in 0..(n - 1) }

\* JSON objects by number of entries
ObjDocs == [n \in 0..MaxEntries |-> {Json(MapVal(f)) : f \in MapsOver(1, n)}]

\* inputs that do not decode to a non-nil map
OtherInputs == {Empty, Malformed, Json(Nil), Json(Num(1)), Json(SeqVal(<<Num(1)>>))}

SmallDocs == UNION {ObjDocs[n] : n \in 0..MaxEntriesBeside}

NotCalled == [t |-> "none"]

(***************************************************************************)
(* util.go: CompareChannelVersion.  Strings are sequences of characters.   *)
(***************************************************************************)
\* strings.Cut(s, sep) for a one-character sep: the text after the first sep
\* and whether sep was found; after is "" when it was not
Cut(s, sep) ==
    IF \E i \in 1..Len(s) : s[i] = sep
    THEN LET i == CHOOSE j \in 1..Len(s) :
                      s[j] = sep /\ \A h \in 1..(j - 1) : s[h] # sep
         IN [after |-> SubSeq(s, i + 1, Len(s)), found |-> TRUE]
    ELSE [after |-> <<>>, found |-> FALSE]

RECURSIVE Split(_, _)
\* strings.Split(s, sep) for a one-character sep; Split("", sep) is [""]
Split(s, sep) ==
    IF \E i \in 1..Len(s) : s[i] = sep
    THEN LET i == CHOOSE j \in 1..Len(s) :
                      s[j] = sep /\ \A h \in 1..(j - 1) : s[h] # sep
         IN <<SubSeq(s, 1, i - 1)>> \o Split(SubSeq(s, i + 1, Len(s)), sep)
    ELSE <<s>>

DigitChars == <<"0", "1", "2", "3", "4", "5", "6", "7", "8", "9">>
IsDigit(c) == \E d \in 1..Len(DigitChars) : DigitChars[d] = c
DigitVal(c) == (CHOOSE d \in 1..Len(DigitChars) : DigitChars[d] = c) - 1

RECURSIVE DigitsValue(_)
DigitsValue(ds) ==
    IF ds = <<>> THEN 0
    ELSE DigitsValue(SubSeq(ds, 1, Len(ds) - 1)) * 10 + DigitVal(ds[Len(ds)])

\* strconv.Atoi(s): an optional sign and at least one decimal digit, nothing
\* else.  (The strings of the model are far below the range of int.)
Atoi(s) ==
    LET signed == s # <<>> /\ s[1] \in {"+", "-"}
        body == IF signed THEN Tail(s) ELSE s
    IN IF body = <<>> \/ \E i \in 1..Len(body) : ~IsDigit(body[i])
       THEN [ok |-> FALSE, n |-> 0]
       ELSE [ok |-> TRUE,
             n |-> IF signed /\ s[1] = "-" THEN 0 - DigitsValue(body)
                   ELSE DigitsValue(body)]

\* what a call of CompareChannelVersion ends with
Returned(b) == [t |-> "ok", v1IsLarger |-> b]
ParseError(comp) == [t |-> "err", v1IsLarger |-> FALSE, on |-> comp]
IndexPanic == [t |-> "panic"]

RECURSIVE compareLoop_noE2(_, _, _)
\* compareLoop with the check of e2 left out (a failed parse counts as 0)
compareLoop_noE2(v1Slice, v2Slice, index) ==
    IF index > Len(v1Slice) THEN Returned(FALSE)
    ELSE LET a1 == Atoi(v1Slice[index])
         IN IF ~a1.ok THEN ParseError(v1Slice[index])
            ELSE IF index > Len(v2Slice) THEN IndexPanic
            ELSE LET a2 == Atoi(v2Slice[index])
                 IN IF a1.n > a2.n THEN Returned(TRUE)
                    ELSE IF a1.n = a2.n
                         THEN compareLoop_noE2(v1Slice, v2Slice, index + 1)
                    ELSE Returned(FALSE)

RECURSIVE compareLoop_ge(_, _, _)
\* compareLoop with >= in place of >
compareLoop_ge(v1Slice, v2Slice, index) ==
    IF index > Len(v1Slice) THEN Returned(FALSE)
    ELSE LET a1 == Atoi(v1Slice[index])
         IN IF ~a1.ok THEN ParseError(v1Slice[index])
            ELSE IF index > Len(v2Slice) THEN IndexPanic
            ELSE LET a2 == Atoi(v2Slice[index])
                 IN IF ~a2.ok THEN ParseError(v2Slice[index])
                    ELSE IF a1.n >= a2.n THEN Returned(TRUE)
                    ELSE Returned(FALSE)

RECURSIVE compareLoop(_, _, _)
\* for index := range v1Slice { ... }; return false, nil
\* index is 1-based here; v2Slice[index] past the end of v2Slice is Go's
\* "index out of range" panic
compareLoop(v1Slice, v2Slice, index) ==
    IF index > Len(v1Slice) THEN Returned(FALSE)
    ELSE LET a1 == Atoi(v1Slice[index])
         IN IF ~a1.ok THEN ParseError(v1Slice[index])
            ELSE IF index > Len(v2Slice) THEN IndexPanic
            ELSE LET a2 == Atoi(v2Slice[index])
                 IN IF ~a2.ok THEN ParseError(v2Slice[index])
                    ELSE IF a1.n > a2.n THEN Returned(TRUE)
                    ELSE IF a1.n = a2.n
                         THEN compareLoop(v1Slice, v2Slice, index + 1)
                    ELSE Returned(FALSE)

ZeroZero == <<"0", ".", "0">>
DotZero == <<".", "0">>

CompareChannelVersion(a, b) ==
    LET c1 == Cut(a, "v")
        v1CutA == IF ~c1.found THEN ZeroZero ELSE c1.after
        v1CutB == IF Len(Split(v1CutA, ".")) = 1 THEN v1CutA \o DotZero ELSE v1CutA
        c2 == Cut(b, "v")
        \* line 153 assigns v1Cut, not v2Cut
        v1Cut == IF ~c2.found THEN ZeroZero ELSE v1CutB
        v2CutA == c2.after
        v2Cut == IF Len(Split(v2CutA, ".")) = 1 THEN v2CutA \o DotZero ELSE v2CutA
    IN compareLoop(Split(v1Cut, "."), Split(v2Cut, "."), 1)

(***************************************************************************)
(* The version strings the model draws its inputs from.                    *)
(***************************************************************************)
Components == {<<"0">>, <<"1">>, <<"2">>, <<"1", "0">>, <<"x">>}
Prefixes == {<<>>, <<"v">>}

RECURSIVE Join(_)
\* the components of a list with '.' between them
Join(list) ==
    IF Len(list) = 1 THEN list[1]
    ELSE list[1] \o <<".">> \o Join(Tail(list))

\* version strings by number of components
VerStrings == [n \in 1..MaxComponents |->
                 {p \o Join(l) : p \in Prefixes, l \in [1..n -> Components]}]

(***************************************************************************)
(* Specification of the merge: inputs are drawn, MergeCR is called, and    *)
(* the caller merges the default into the encoded result once more.        *)
(***************************************************************************)
InitMerge ==
    /\ \/ \E n \in 0..MaxEntries :
             /\ defaultCR \in ObjDocs[n]
             /\ changedCR \in UNION {ObjDocs[j] : j \in 0..(MaxEntries - n)}
       \/ /\ defaultCR \in OtherInputs
          /\ changedCR \in OtherInputs \cup SmallDocs
       \/ /\ defaultCR \in SmallDocs
          /\ changedCR \in OtherInputs
    /\ merged = NotCalled
    /\ remerged = NotCalled
    /\ v1 = <<>>
    /\ v2 = <<>>
    /\ cmp = NotCalled
    /\ cmpSwapped = NotCalled
    /\ pc = "start"

\* a caller invokes MergeCR(defaultCR, changedCR)
CallMergeCR ==
    /\ pc = "start"
    /\ merged' = MergeCR(defaultCR, changedCR)
    /\ pc' = IF merged'.ret = Panic THEN "panicked" ELSE "merged"
    /\ UNCHANGED <<defaultCR, changedCR, remerged, v1, v2, cmp, cmpSwapped>>

\* json.Marshal of a returned map: a nil map encodes as null
Marshal(m) == IF m.t = "nilmap" THEN Json(Nil) ELSE Json(m)

\* the caller invokes MergeCR(defaultCR, <the encoded result of the first call>)
CallMergeCRAgain ==
    /\ pc = "merged"
    /\ remerged' = MergeCR(defaultCR, Marshal(merged.ret))
    /\ pc' = IF remerged'.ret = Panic THEN "panicked" ELSE "remerged"
    /\ UNCHANGED <<defaultCR, changedCR, merged, v1, v2, cmp, cmpSwapped>>

NextMerge == CallMergeCR \/ CallMergeCRAgain

MergeSpec == InitMerge /\ [][NextMerge]_vars

(***************************************************************************)
(* Specification of the comparison: inputs are drawn,                      *)
(* CompareChannelVersion(v1, v2) is called, then (v2, v1).                 *)
(***************************************************************************)
InitVersion ==
    /\ \E n \in 1..(MaxComponents - 1) :
          /\ v1 \in VerStrings[n]
          /\ v2 \in UNION {VerStrings[j] : j \in 1..(MaxComponents - n)}
    /\ cmp = NotCalled
    /\ cmpSwapped = NotCalled
    /\ defaultCR = Empty
    /\ changedCR = Empty
    /\ merged = NotCalled
    /\ remerged = NotCalled
    /\ pc = "start"

CallCompare ==
    /\ pc = "start"
    /\ cmp' = CompareChannelVersion(v1, v2)
    /\ pc' = IF cmp'.t = "panic" THEN "panicked" ELSE "compared"
    /\ UNCHANGED <<defaultCR, changedCR, merged, remerged, v1, v2, cmpSwapped>>

CallCompareSwapped ==
    /\ pc = "compared"
    /\ cmpSwapped' = CompareChannelVersion(v2, v1)
    /\ pc' = IF cmpSwapped'.t = "panic" THEN "panicked" ELSE "swapped"
    /\ UNCHANGED <<defaultCR, changedCR, merged, remerged, v1, v2, cmp>>

NextVersion == CallCompare \/ CallCompareSwapped

VersionSpec == InitVersion /\ [][NextVersion]_vars

(***************************************************************************)
(* Properties of MergeCR (checked under MergeSpec).                        *)
(***************************************************************************)
\* the buffer is non-empty and decodes to a non-nil map (a JSON object)
DecodesToMap(buf) == buf.b = "json" /\ buf.doc.t = "map"
BothDecodeToMaps == DecodesToMap(defaultCR) /\ DecodesToMap(changedCR)
Called == pc \in {"merged", "remerged", "panicked"}

\* C1 as stated: for decodable non-empty D and C, every top-level key of D,
\* whatever its value (null included), is a key of MergeCR(D, C).
C1_KeyCoverageAnyValue ==
    (Called /\ BothDecodeToMaps) =>
        \A k \in DOMAIN defaultCR.doc.v : k \in KeysOf(merged.ret)

\* C1 amended: for decodable non-empty D and C, every top-level key of D
\* whose value is not null is a key of MergeCR(D, C); a key of D whose value
\* is null is a key of the result exactly when it is a key of C.
C1_KeyCoverageNonNull ==
    (Called /\ BothDecodeToMaps) =>
        \A k \in DOMAIN defaultCR.doc.v :
            IF defaultCR.doc.v[k] # Nil
            THEN k \in KeysOf(merged.ret)
            ELSE (k \in KeysOf(merged.ret)) <=> (k \in DOMAIN changedCR.doc.v)

C1_Witness ==
    /\ pc = "merged"
    /\ BothDecodeToMaps
    /\ \E k \in DOMAIN defaultCR.doc.v :
          /\ defaultCR.doc.v[k] = Nil
          /\ k \notin DOMAIN changedCR.doc.v
          /\ k \notin KeysOf(merged.ret)
    /\ \E k \in DOMAIN defaultCR.doc.v :
          /\ defaultCR.doc.v[k] # Nil
          /\ k \notin DOMAIN changedCR.doc.v
          /\ k \in KeysOf(merged.ret)

RECURSIVE Reconcile(_, _)
\* the reconciliation rule of the specification, on the contents d and c of
\* two maps: a key of c that d lacks keeps its value; a key of d is left
\* alone when its values deep-equal (so a null default adds no key), receives
\* the default when the changed value is absent or null, is reconciled key
\* by key when both values are maps, and otherwise keeps the changed value.
Reconcile(d, c) ==
    [k \in (DOMAIN c) \cup {j \in DOMAIN d : d[j] # Nil} |->
        IF k \notin DOMAIN d THEN c[k]
        ELSE IF k \notin DOMAIN c \/ c[k] = Nil THEN d[k]
        ELSE IF d[k].t = "map" /\ c[k].t = "map"
             THEN MapVal(Reconcile(d[k].v, c[k].v))
        ELSE c[k]]

\* C2: for decodable non-empty D and C, MergeCR(D, C) is the recursive
\* reconciliation of the specification, at every depth.
C2_EqualsReconciliation ==
    (Called /\ BothDecodeToMaps) =>
        merged.ret = MapVal(Reconcile(defaultCR.doc.v, changedCR.doc.v))

\* two maps below the top level, themselves holding two differing maps under
\* a common key, were reconciled
C2_Witness ==
    /\ pc = "merged"
    /\ BothDecodeToMaps
    /\ \E k \in (DOMAIN defaultCR.doc.v) \cap (DOMAIN changedCR.doc.v) :
          LET dv == defaultCR.doc.v[k]
              cv == changedCR.doc.v[k]
          IN /\ dv.t = "map" /\ cv.t = "map"
             /\ \E j \in (DOMAIN dv.v) \cap (DOMAIN cv.v) :
                   /\ dv.v[j].t = "map" /\ cv.v[j].t = "map"
                   /\ dv.v[j] # cv.v[j]
                   /\ merged.ret.v[k].v[j] # cv.v[j]

\* C3: whatever defaultCR is, a key whose value in C is present, not null
\* and not a map has that same value in MergeCR(D, C).
C3_NonOverwrite ==
    (Called /\ DecodesToMap(changedCR)) =>
        \A k \in DOMAIN changedCR.doc.v :
            changedCR.doc.v[k].t \notin {"nil", "map"} =>
                /\ merged.ret.t = "map"
                /\ k \in DOMAIN merged.ret.v
                /\ merged.ret.v[k] = changedCR.doc.v[k]

\* a set scalar met a default map, and a set sequence or scalar met a
\* different non-map default
C3_Witness ==
    /\ pc = "merged"
    /\ BothDecodeToMaps
    /\ \E k \in (DOMAIN defaultCR.doc.v) \cap (DOMAIN changedCR.doc.v) :
          /\ defaultCR.doc.v[k].t = "map"
          /\ changedCR.doc.v[k].t = "num"
          /\ merged.ret.v[k] = changedCR.doc.v[k]
    /\ \E k \in (DOMAIN defaultCR.doc.v) \cap (DOMAIN changedCR.doc.v) :
          /\ defaultCR.doc.v[k].t \in {"num", "seq"}
          /\ changedCR.doc.v[k].t \in {"num", "seq"}
          /\ defaultCR.doc.v[k] # changedCR.doc.v[k]
          /\ merged.ret.v[k] = changedCR.doc.v[k]

\* C4: merging D into the (encoded) result of MergeCR(D, C) returns that
\* result again.
C4_Idempotent ==
    (remerged # NotCalled) => (remerged.ret = merged.ret)

\* the first merge filled a gap, and the second merge was made
C4_Witness ==
    /\ pc = "remerged"
    /\ BothDecodeToMaps
    /\ merged.ret # changedCR.doc
    /\ merged.ret # defaultCR.doc

\* C5: with an empty input no reconciliation runs: both empty gives the empty
\* map, otherwise the result is the decode of the other input.
C5_EmptyInput ==
    (Called /\ (IsEmptyBuf(defaultCR) \/ IsEmptyBuf(changedCR))) =>
        merged.ret = IF IsEmptyBuf(defaultCR) /\ IsEmptyBuf(changedCR) THEN MakeMap
                     ELSE IF IsEmptyBuf(changedCR) THEN Unmarshal(defaultCR, MakeMap).m
                     ELSE Unmarshal(changedCR, MakeMap).m

C5_Witness ==
    /\ pc = "merged"
    /\ IsEmptyBuf(changedCR)
    /\ DecodesToMap(defaultCR)
    /\ DOMAIN defaultCR.doc.v # {}
    /\ merged.ret = defaultCR.doc

\* C10 as stated: MergeCR returns a map, without aborting, for every pair of
\* inputs.
C10_NeverAborts ==
    Called => merged.ret.t \in {"map", "nilmap"}

(***************************************************************************)
(* Properties of CompareChannelVersion (checked under VersionSpec).        *)
(***************************************************************************)
Compared == pc \in {"compared", "swapped", "panicked"} /\ cmp # NotCalled
HasPrefix(s) == \E i \in 1..Len(s) : s[i] = "v"

\* steps 1 to 3 of the specification, applied to one input alone
Normalized(s) ==
    LET rest == IF HasPrefix(s) THEN Cut(s, "v").after ELSE ZeroZero
    IN IF Len(Split(rest, ".")) = 1 THEN Split(rest \o DotZero, ".")
       ELSE Split(rest, ".")

IsInteger(comp) == Atoi(comp).ok
AllIntegers(list) == \A i \in 1..Len(list) : IsInteger(list[i])

\* C6 as stated: an input without 'v' is compared as "0.0", each input on
\* its own: with v2 lacking 'v' the outcome is that of (v1, "v0.0").
C6_DefaultPerInput ==
    (Compared /\ ~HasPrefix(v2)) =>
        cmp = CompareChannelVersion(v1, <<"v">> \o ZeroZero)

\* C7 as stated: a non-integer component anywhere in either normalized
\* version string makes the call fail with a parse error.
C7_AnyBadComponentFails ==
    (Compared /\ (~AllIntegers(Normalized(v1)) \/ ~AllIntegers(Normalized(v2)))) =>
        cmp.t = "err"

\* the first index, within v1's components, at which the two lists do not
\* hold equal integers (0 when there is none)
FirstUnequal(n1, n2) ==
    LET bad(i) == \/ i > Len(n2)
                  \/ ~IsInteger(n1[i])
                  \/ ~IsInteger(n2[i])
                  \/ Atoi(n1[i]).n # Atoi(n2[i]).n
    IN IF \E i \in 1..Len(n1) : bad(i)
       THEN CHOOSE i \in 1..Len(n1) : bad(i) /\ \A j \in 1..(i - 1) : ~bad(j)
       ELSE 0

\* C7 amended: the call fails with a parse error whenever the first index
\* (within v1's component count) at which the normalized lists do not hold
\* equal integers holds a non-integer component of v1, or an integer
\* component of v1 and a non-integer component of v2.
C7_ReachedBadComponentFails ==
    Compared =>
        LET n1 == Normalized(v1)
            n2 == Normalized(v2)
            i == FirstUnequal(n1, n2)
        IN (i # 0 /\ (~IsInteger(n1[i]) \/ (i <= Len(n2) /\ ~IsInteger(n2[i]))))
              => cmp.t = "err"

\* v2's non-integer component was reached after an equal first pair
C7_Witness ==
    /\ pc = "compared"
    /\ HasPrefix(v1) /\ HasPrefix(v2)
    /\ AllIntegers(Normalized(v1))
    /\ FirstUnequal(Normalized(v1), Normalized(v2)) = 2
    /\ ~IsInteger(Normalized(v2)[2])
    /\ cmp.t = "err"

\* v1's integers are lexicographically greater than v2's
LexGreater(n1, n2) ==
    \E i \in 1..Len(n1) :
        /\ Atoi(n1[i]).n > Atoi(n2[i]).n
        /\ \A j \in 1..(i - 1) : Atoi(n1[j]).n = Atoi(n2[j]).n

SameLengthIntegers ==
    /\ HasPrefix(v1) /\ HasPrefix(v2)
    /\ Len(Normalized(v1)) = Len(Normalized(v2))
    /\ AllIntegers(Normalized(v1)) /\ AllIntegers(Normalized(v2))

\* C8: for prefixed strings with integer component lists of the same length
\* (after padding), the call returns true exactly when v1's list is
\* lexicographically greater, and is never true for both orders.
C8_LexicographicOrder ==
    (Compared /\ SameLengthIntegers) =>
        /\ cmp = Returned(LexGreater(Normalized(v1), Normalized(v2)))
        /\ (pc = "swapped") => ~(cmp.v1IsLarger /\ cmpSwapped.v1IsLarger)

\* "v<m>.2" against "v<m>.10": the numerically smaller list wins no "true",
\* and the swapped call does
C8_Witness ==
    /\ pc = "swapped"
    /\ SameLengthIntegers
    /\ Normalized(v1)[1] = Normalized(v2)[1]
    /\ Normalized(v1)[2] = <<"2">>
    /\ Normalized(v2)[2] = <<"1", "0">>
    /\ cmp = Returned(FALSE)
    /\ cmpSwapped = Returned(TRUE)

\* C9 as stated: every call ends with a boolean or a parse error; no index
\* past the end of v2's components is read.
C9_NoIndexPastEnd ==
    Compared => cmp.t \in {"ok", "err"}

====
